---- MODULE Spec2Model ----
(***************************************************************************)
(* State-machine model of models/progan_model.py (class ProGanModel):      *)
(* construction and its configuration checks, the epoch schedule, the      *)
(* stage/blend counters advanced once per epoch, the real-sample           *)
(* downsampling of set_input and the sub-steps of optimize_parameters.     *)
(*                                                                         *)
(* Numbers.  alpha is a Python float computed as (2./allocation)*iter and  *)
(* clamped with min(1, .).  It is modelled as an exact fraction <<n, d>>   *)
(* in lowest terms; for the allocations and counters reached here the      *)
(* float result is 1 exactly when the fraction is (the first i with        *)
(* (1./i)*i # 1 in IEEE doubles is 49).  The schedule is                   *)
(* (total_steps * w / sum(w)).astype(int): the quotients have small        *)
(* integer numerators and a denominator of at most 145, so truncation of   *)
(* the float equals integer floor division.                                *)
(***************************************************************************)
EXTENDS Integers, Sequences, FiniteSets, TLC

(* ------------------------------ bounds -------------------------------- *)

\* largest opt.max_steps drawn at start (9 exceeds the 9 hard-coded weights)
MaxStageBound == 9
\* largest opt.n_epochs + opt.n_epochs_decay drawn at start
MaxBudget == 21
\* cap on the number of update_learning_rate calls of one run
MaxCalls == 24
\* cap on the number of optimize_parameters calls of one run
MaxOpt == 2
\* cap on update_learning_rate calls in the training-step specification
MaxTrainCalls == 3

(* --------------------------- program constants ------------------------ *)

\* the asserted lower bound: total_steps > 12
MinTotalSteps == 12
\* runaway threshold of the backward guards
LossLimit == 100
\* decay of accumulate() after an optimisation step, in thousandths (0.999)
DefaultDecay == 999
\* base resolution of stage 0: crop_size == 4 * 2 ** max_steps
BaseSize == 4

VARIABLES
    opt,              \* the options object handed to __init__
    phase,            \* "new" | "ready" | "aborted" (constructor raised) | "crashed"
    error,            \* the exception that ended construction or a call, or "none"
    total_steps,      \* self.total_steps
    step,             \* self.step
    iter,             \* self.iter
    alpha,            \* self.alpha, a fraction <<n, d>>
    epochs_schedule,  \* self.epochs_schedule (index i of the code is i + 1 here)
    calls,            \* number of update_learning_rate calls made so far
    real_B,           \* self.real_B: how set_input produced it, or NoSample
    input_calls,      \* value of calls when set_input last ran
    fake_B,           \* self.fake_B: how forward produced it, or NoSample
    paramC,           \* parameters of netC (training generator)
    paramD,           \* parameters of netD
    paramG,           \* parameters of netG (inference generator), in thousandths
    gradC,            \* accumulated .grad of netC's parameters
    gradD,            \* accumulated .grad of netD's parameters
    D_requires_grad,  \* requires_grad flag of netD's parameters
    loss_D,           \* self.loss_D
    loss_G,           \* self.loss_G
    pred_real,        \* self.pred_real: number of the call that stored it (0: unset)
    pred_real_read,   \* call whose pred_real backward_G read last (0: none, -1: not read)
    d_inputs,         \* what netD was given in backward_D: [real, fake, step, alpha]
    n_opt,            \* number of optimize_parameters calls made so far
    trace             \* sub-steps of the last optimize_parameters call, in order

vars == <<opt, phase, error, total_steps, step, iter, alpha, epochs_schedule,
          calls, real_B, input_calls, fake_B, paramC, paramD, paramG, gradC,
          gradD, D_requires_grad, loss_D, loss_G, pred_real, pred_real_read,
          d_inputs, n_opt, trace>>

schedVars == <<total_steps, step, iter, alpha, epochs_schedule>>
inputVars == <<real_B, input_calls>>
netVars == <<fake_B, paramC, paramD, gradC, gradD, D_requires_grad, loss_D,
             loss_G, pred_real, pred_real_read, d_inputs, n_opt, trace>>

(* ------------------------------ helpers ------------------------------- *)

RECURSIVE GCD(_, _)
GCD(a, b) == IF b = 0 THEN a ELSE GCD(b, a % b)

\* the fraction n/d (d > 0) in lowest terms
Frac(n, d) == LET g == GCD(n, d) IN <<n \div g, d \div g>>

Zero == <<0, 1>>
One == <<1, 1>>

\* min(1, n/d) for n >= 0, d > 0
Min1(n, d) == IF n >= d THEN One ELSE Frac(n, d)

InUnit(f) == f[2] > 0 /\ 0 <= f[1] /\ f[1] <= f[2]

RECURSIVE SumSeq(_)
SumSeq(s) == IF s = <<>> THEN 0 ELSE Head(s) + SumSeq(Tail(s))

Abs(x) == IF x < 0 THEN -x ELSE x

NoSample == [size |-> 0, depth |-> -1, alpha |-> Zero]

(* ------------------------- create_epochs_schedule --------------------- *)

FibonacciWeights == <<3, 3, 3, 5, 8, 13, 21, 34, 55>>
LinearWeights == <<1, 1, 1, 1, 1, 1, 1, 1, 1>>

\* basic_weights[:max_steps + 1]: a Python slice stops at the end of the array
SliceWeights(w, max_steps) ==
    SubSeq(w, 1, IF max_steps + 1 < Len(w) THEN max_steps + 1 ELSE Len(w))

create_epochs_schedule_unnormalised(steps_schedule_type, max_steps, total) ==
    LET w == SliceWeights(IF steps_schedule_type = "fibonacci"
                          THEN FibonacciWeights ELSE LinearWeights, max_steps)
    IN [i \in 1..Len(w) |-> total * w[i]]

create_epochs_schedule(steps_schedule_type, max_steps, total) ==
    LET w == SliceWeights(IF steps_schedule_type = "fibonacci"
                          THEN FibonacciWeights ELSE LinearWeights, max_steps)
        s == SumSeq(w)
    IN [i \in 1..Len(w) |-> (total * w[i]) \div s]

(* ------------------------------ __init__ ------------------------------ *)

\* isTrain: assert crop_size == 4 * 2 ** max_steps; assert beta1 == 0
FirstAssertsHold_nobeta(o) == o.crop_size = BaseSize * 2 ^ o.max_steps

FirstAssertsHold(o) ==
    /\ o.crop_size = BaseSize * 2 ^ o.max_steps
    /\ o.beta1 = 0

\* isTrain: assert total_steps > 12; assert crop_size % 2 ** max_steps == 0
LastAssertsHold(o, total) ==
    /\ total > MinTotalSteps
    /\ o.crop_size % (2 ^ o.max_steps) = 0

\* update_average(netG, netC, decay): netG = decay*netG + (1-decay)*netC,
\* decay in thousandths, netG kept in thousandths of netC's unit
update_average(g, c, decay) == (decay * g + (1000 - decay) * (1000 * c)) \div 1000

\* The constructor.  The first pair of asserts (training only) precedes the
\* counters; the counters and the schedule are then assigned in every mode;
\* the second pair of asserts (training only) follows; accumulate(0) ends it.
\* accumulate reads self.netC, which is assigned only when isTrain holds, so
\* outside training the attribute lookup raises and construction fails.
Construct ==
    /\ phase = "new"
    /\ UNCHANGED <<opt, step, iter, alpha, calls, inputVars, netVars>>
    /\ IF opt.isTrain /\ ~FirstAssertsHold(opt)
       THEN /\ phase' = "aborted"
            /\ error' = "AssertionError"
            /\ UNCHANGED <<total_steps, epochs_schedule, paramG>>
       ELSE LET total == opt.epochs + 1 IN
            /\ total_steps' = total
            /\ epochs_schedule' =
                   create_epochs_schedule(opt.steps_schedule, opt.max_steps, total)
            /\ IF opt.isTrain /\ ~LastAssertsHold(opt, total)
               THEN /\ phase' = "aborted"
                    /\ error' = "AssertionError"
                    /\ UNCHANGED paramG
               ELSE IF ~opt.isTrain
               THEN /\ phase' = "aborted"
                    /\ error' = "AttributeError"
                    /\ UNCHANGED paramG
               ELSE /\ phase' = "ready"
                    /\ error' = "none"
                    /\ paramG' = update_average(paramG, paramC, 0)

(* ----------------------- update_inners_counters ----------------------- *)

\* The new <<step, iter, alpha, raised>> after one call.  Indexing the
\* schedule past its end raises IndexError after iter was incremented.  A
\* zero allocation makes 2./0 a numpy inf (a warning, no exception), and
\* min(1, inf) is 1.
update_inners_counters_noclamp(st, it0, al0, sched, max_steps) ==
    LET it == it0 + 1 IN
    IF st + 1 > Len(sched)
    THEN <<st, it, al0, TRUE>>
    ELSE LET a == sched[st + 1]
             al == IF a = 0 THEN One ELSE Min1(2 * it, a)
         IN IF it > a
            THEN <<st + 1, 0, Zero, FALSE>>
            ELSE <<st, it, al, FALSE>>

update_inners_counters_noreset(st, it0, al0, sched, max_steps) ==
    LET it == it0 + 1 IN
    IF st + 1 > Len(sched)
    THEN <<st, it, al0, TRUE>>
    ELSE LET a == sched[st + 1]
             al == IF a = 0 THEN One ELSE Min1(2 * it, a)
         IN IF it > a
            THEN IF st + 1 > max_steps
                 THEN <<max_steps, 0, One, FALSE>>
                 ELSE <<st + 1, 0, al, FALSE>>
            ELSE <<st, it, al, FALSE>>

update_inners_counters_slowfade(st, it0, al0, sched, max_steps) ==
    LET it == it0 + 1 IN
    IF st + 1 > Len(sched)
    THEN <<st, it, al0, TRUE>>
    ELSE LET a == sched[st + 1]
             al == IF a = 0 THEN One ELSE Min1(it, a)
         IN IF it > a
            THEN IF st + 1 > max_steps
                 THEN <<max_steps, 0, One, FALSE>>
                 ELSE <<st + 1, 0, Zero, FALSE>>
            ELSE <<st, it, al, FALSE>>

update_inners_counters(st, it0, al0, sched, max_steps) ==
    LET it == it0 + 1 IN
    IF st + 1 > Len(sched)
    THEN <<st, it, al0, TRUE>>
    ELSE LET a == sched[st + 1]
             al == IF a = 0 THEN One ELSE Min1(2 * it, a)
         IN IF it > a
            THEN IF st + 1 > max_steps
                 THEN <<max_steps, 0, One, FALSE>>
                 ELSE <<st + 1, 0, Zero, FALSE>>
            ELSE <<st, it, al, FALSE>>

\* update_learning_rate: the base class steps the learning-rate schedulers
\* (no state of this model), then the counters advance.
UpdateLearningRateUpTo(cap) ==
    /\ phase = "ready"
    /\ calls < cap
    /\ LET r == update_inners_counters(step, iter, alpha, epochs_schedule,
                                       opt.max_steps)
       IN /\ step' = r[1]
          /\ iter' = r[2]
          /\ alpha' = r[3]
          /\ phase' = IF r[4] THEN "crashed" ELSE phase
          /\ error' = IF r[4] THEN "IndexError" ELSE error
    /\ calls' = calls + 1
    /\ UNCHANGED <<opt, total_steps, epochs_schedule, inputVars, netVars, paramG>>

UpdateLearningRate == UpdateLearningRateUpTo(MaxCalls)

(* ---------------- set_input and __progressive_downsampling ------------ *)

\* The real batch at the working resolution of depth.  size is the side of
\* AvgPool2d(down_sample_factor)(real_batch); mix is the weight of the
\* native-resolution sample in the result.  At depth 0 the prior sample is
\* the native one, so the result is the native sample whatever alpha is.
progressive_downsampling_native(crop_size, max_steps, depth, al) ==
    LET down_sample_factor == 2 ^ (max_steps - depth)
    IN [size |-> crop_size \div down_sample_factor,
        depth |-> depth,
        alpha |-> One]

progressive_downsampling(crop_size, max_steps, depth, al) ==
    LET down_sample_factor == 2 ^ (max_steps - depth)
    IN [size |-> crop_size \div down_sample_factor,
        depth |-> depth,
        alpha |-> IF depth > 0 THEN al ELSE One]

set_input ==
    /\ phase = "ready"
    /\ real_B' = progressive_downsampling(opt.crop_size, opt.max_steps, step, alpha)
    /\ input_calls' = calls
    /\ UNCHANGED <<opt, phase, error, schedVars, calls, netVars, paramG>>

(* ------------------------- optimize_parameters ------------------------ *)

\* the generator: a latent of side crop_size // 2 ** max_steps, doubled once
\* per stage; the last doubling is faded in by alpha
Generator(z_size, st, al) ==
    [size |-> z_size * 2 ^ st, depth |-> st, alpha |-> IF st > 0 THEN al ELSE One]

\* Adam with betas = (beta1, 0.99) and beta1 = 0 (asserted at construction):
\* the first moment is the gradient itself, the update has the gradient's
\* sign and is zero for a zero gradient
AdamStep(p, g) == p - g

NaN == [kind |-> "nan", v |-> 0]
Inf == [kind |-> "inf", v |-> 0]
Num(x) == [kind |-> "num", v |-> x]

\* not (isinf(loss) or isnan(loss) or mean(abs(loss)) > 100)
GuardPasses_unguarded(loss) == TRUE

GuardPasses(loss) ==
    ~(loss.kind = "inf" \/ loss.kind = "nan" \/ Abs(loss.v) > LossLimit)

Net ==
    [fake_B |-> fake_B, paramC |-> paramC, paramD |-> paramD, paramG |-> paramG,
     gradC |-> gradC, gradD |-> gradD, D_requires_grad |-> D_requires_grad,
     loss_D |-> loss_D, loss_G |-> loss_G, pred_real |-> pred_real,
     pred_real_read |-> pred_real_read, d_inputs |-> d_inputs, trace |-> <<>>]

Did(n, what) == Append(n.trace, what)

forward(n) ==
    [n EXCEPT !.fake_B = Generator(opt.crop_size \div (2 ^ opt.max_steps),
                                   step, alpha),
              !.trace = Did(n, "forward")]

set_requires_grad_D(n, b) ==
    [n EXCEPT !.D_requires_grad = b,
              !.trace = Did(n, IF b THEN "netD.requires_grad=True"
                                    ELSE "netD.requires_grad=False")]

optimizer_D_zero_grad(n) ==
    [n EXCEPT !.gradD = 0, !.trace = Did(n, "optimizer_D.zero_grad")]

optimizer_C_zero_grad(n) ==
    [n EXCEPT !.gradC = 0, !.trace = Did(n, "optimizer_C.zero_grad")]

\* netD sees fake_B.detach() and real_B at the current step and alpha; the
\* real prediction is kept in self.pred_real; the gradients reach netD only
\* (and only while its parameters require them)
backward_D(n, loss, g, call) ==
    LET m == [n EXCEPT !.d_inputs = [real |-> real_B, fake |-> n.fake_B,
                                     step |-> step, alpha |-> alpha],
                       !.pred_real = call,
                       !.loss_D = loss,
                       !.trace = Did(n, "loss_D")]
    IN IF GuardPasses(loss)
       THEN [m EXCEPT !.gradD = IF m.D_requires_grad THEN m.gradD + g ELSE m.gradD,
                      !.trace = Did(m, "loss_D.backward")]
       ELSE m

optimizer_D_step(n) ==
    [n EXCEPT !.paramD = AdamStep(n.paramD, n.gradD),
              !.trace = Did(n, "optimizer_D.step")]

\* netD sees fake_B (not detached); only the relhinge criterion reads
\* self.pred_real; the gradients reach netC, and netD if it requires them
backward_G(n, loss, gC, gD) ==
    LET m == [n EXCEPT !.pred_real_read =
                           IF opt.gan_mode = "relhinge" THEN n.pred_real ELSE -1,
                       !.loss_G = loss,
                       !.trace = Did(n, "loss_G")]
    IN IF GuardPasses(loss)
       THEN [m EXCEPT !.gradC = m.gradC + gC,
                      !.gradD = IF m.D_requires_grad THEN m.gradD + gD ELSE m.gradD,
                      !.trace = Did(m, "loss_G.backward")]
       ELSE m

optimizer_C_step(n) ==
    [n EXCEPT !.paramC = AdamStep(n.paramC, n.gradC),
              !.trace = Did(n, "optimizer_C.step")]

accumulate(n, decay) ==
    [n EXCEPT !.paramG = update_average(n.paramG, n.paramC, decay),
              !.trace = Did(n, IF decay = DefaultDecay THEN "accumulate(0.999)"
                                                       ELSE "accumulate(other)")]

\* the generator update ahead of the discriminator update
optimize_parameters_G_first(lD, lG, gD, gC, call) ==
    LET n1 == forward(Net)
        n2 == set_requires_grad_D(n1, FALSE)
        n3 == optimizer_C_zero_grad(n2)
        n4 == backward_G(n3, lG, gC, gD)
        n5 == optimizer_C_step(n4)
        n6 == set_requires_grad_D(n5, TRUE)
        n7 == optimizer_D_zero_grad(n6)
        n8 == backward_D(n7, lD, gD, call)
        n9 == optimizer_D_step(n8)
    IN accumulate(n9, DefaultDecay)

optimize_parameters(lD, lG, gD, gC, call) ==
    LET n1 == forward(Net)
        n2 == set_requires_grad_D(n1, TRUE)
        n3 == optimizer_D_zero_grad(n2)
        n4 == backward_D(n3, lD, gD, call)
        n5 == optimizer_D_step(n4)
        n6 == set_requires_grad_D(n5, FALSE)
        n7 == optimizer_C_zero_grad(n6)
        n8 == backward_G(n7, lG, gC, gD)
        n9 == optimizer_C_step(n8)
    IN accumulate(n9, DefaultDecay)

LossVals == {Num(LossLimit), Num(-(LossLimit + 1)), NaN, Inf}
\* one abstract non-zero gradient
GradVals == {1}

\* One optimisation step.  forward reads self.real_B, so the call needs a
\* set_input before it.
OptimizeParameters ==
    /\ phase = "ready"
    /\ real_B # NoSample
    /\ n_opt < MaxOpt
    /\ \E lD \in LossVals, lG \in LossVals, gD \in GradVals, gC \in GradVals :
         LET n == optimize_parameters(lD, lG, gD, gC, n_opt + 1) IN
         /\ fake_B' = n.fake_B
         /\ paramC' = n.paramC
         /\ paramD' = n.paramD
         /\ paramG' = n.paramG
         /\ gradC' = n.gradC
         /\ gradD' = n.gradD
         /\ D_requires_grad' = n.D_requires_grad
         /\ loss_D' = n.loss_D
         /\ loss_G' = n.loss_G
         /\ pred_real' = n.pred_real
         /\ pred_real_read' = n.pred_real_read
         /\ d_inputs' = n.d_inputs
         /\ trace' = n.trace
    /\ n_opt' = n_opt + 1
    /\ UNCHANGED <<opt, phase, error, schedVars, calls, inputVars>>

(* --------------------------- specifications --------------------------- *)

ScheduleTypes == {"linear", "fibonacci"}
GanModes == {"relhinge", "wgangp", "lsgan"}
\* beta1 in tenths: the asserted 0 and the framework default 0.5
Beta1Vals == {0, 5}
\* the matching size, a multiple of it, and a size that is neither
CropSizes(m) == {BaseSize * 2 ^ m, 2 * BaseSize * 2 ^ m, BaseSize * 2 ^ m + 2}

Opts ==
    UNION {[isTrain : BOOLEAN, crop_size : CropSizes(m), beta1 : Beta1Vals,
            max_steps : {m}, steps_schedule : ScheduleTypes,
            epochs : 0..MaxBudget, gan_mode : {"relhinge"}]
           : m \in 0..MaxStageBound}

\* training configurations of the training-step specification: allocations
\* <<2, 2, 2, 4>>, so that a few epochs reach the second stage
TrainStages == {3}
TrainSchedules == {"fibonacci"}
TrainOpts ==
    UNION {[isTrain : {TRUE}, crop_size : {BaseSize * 2 ^ m}, beta1 : {0},
            max_steps : {m}, steps_schedule : TrainSchedules,
            epochs : {MinTotalSteps}, gan_mode : GanModes]
           : m \in TrainStages}

InitFields ==
    /\ phase = "new"
    /\ error = "none"
    /\ total_steps = 0
    /\ step = 0
    /\ iter = 0
    /\ alpha = Zero
    /\ epochs_schedule = <<>>
    /\ calls = 0
    /\ real_B = NoSample
    /\ input_calls = 0
    /\ fake_B = NoSample
    /\ paramC = 1
    /\ paramD = 0
    /\ paramG = 0
    /\ gradC = 0
    /\ gradD = 0
    /\ D_requires_grad = TRUE
    /\ loss_D = Num(0)
    /\ loss_G = Num(0)
    /\ pred_real = 0
    /\ pred_real_read = 0
    /\ d_inputs = [real |-> NoSample, fake |-> NoSample, step |-> 0, alpha |-> Zero]
    /\ n_opt = 0
    /\ trace = <<>>

\* construction and the epoch counters, over every configuration
Init == opt \in Opts /\ InitFields
Next == Construct \/ UpdateLearningRate
Spec == Init /\ [][Next]_vars

\* the training calls, over valid training configurations
UpdateLearningRateTrain == UpdateLearningRateUpTo(MaxTrainCalls)
InitTrain == opt \in TrainOpts /\ InitFields
NextTrain == Construct \/ set_input \/ UpdateLearningRateTrain \/ OptimizeParameters
SpecTrain == InitTrain /\ [][NextTrain]_vars

(* ----------------------------- properties ----------------------------- *)

Constructed == phase \in {"ready", "crashed"}

\* C1: over any sequence of update_learning_rate calls from step = 0,
\* iter = 0, the stage never decreases from one call to the next and never
\* exceeds max_steps.
C1_StageMonotoneBounded == [][step' >= step /\ step' <= opt.max_steps]_vars

\* a run that passed through every stage and was clamped at the last one
C1_Witness ==
    /\ phase = "ready"
    /\ opt.max_steps > 0
    /\ step = opt.max_steps
    /\ iter = 0
    /\ alpha = One

\* C2: after every update_learning_rate call alpha is in [0, 1]; a call that
\* increments the stage leaves alpha = 0; a call that wraps the counter at
\* the last stage leaves the stage where it is and alpha = 1.
C2_BlendAfterAdvance ==
    [][calls' = calls + 1 =>
         /\ InUnit(alpha')
         /\ (step' > step => alpha' = Zero)
         /\ ((step = opt.max_steps /\ iter' = 0) =>
                 (alpha' = One /\ step' = step))]_vars

\* just after a stage increment
C2_Witness ==
    /\ phase = "ready"
    /\ calls > 0
    /\ step > 0
    /\ iter = 0
    /\ alpha = Zero

\* a loss that is NaN, infinite, or above 100 in absolute value
BadLoss(l) == l.kind \in {"nan", "inf"} \/ Abs(l.v) > LossLimit

NoneIn(tr, what) == \A i \in 1..Len(tr) : tr[i] # what
SomeIn(tr, what) == \E i \in 1..Len(tr) : tr[i] = what
Completed(tr) == tr # <<>> /\ tr[Len(tr)] = "accumulate(0.999)"

\* C3 as stated: with a non-finite or runaway sub-loss, the backward pass and
\* the optimizer step of that sub-loss are both skipped and its parameters
\* are unchanged.
C3_Original ==
    [][n_opt' = n_opt + 1 =>
         /\ (BadLoss(loss_D') =>
                 /\ NoneIn(trace', "loss_D.backward")
                 /\ NoneIn(trace', "optimizer_D.step")
                 /\ paramD' = paramD)
         /\ (BadLoss(loss_G') =>
                 /\ NoneIn(trace', "loss_G.backward")
                 /\ NoneIn(trace', "optimizer_C.step")
                 /\ paramC' = paramC)]_vars

\* C3 (amended): with a non-finite or runaway sub-loss, the backward pass of
\* that sub-loss is skipped; its optimizer step still runs, on the gradients
\* zeroed earlier in the call, and leaves its parameters unchanged; a
\* sub-loss that passes the guard is backpropagated and its parameters are
\* stepped by its gradient; the call runs to its last sub-step.
C3_GuardSkipsBackward ==
    [][n_opt' = n_opt + 1 =>
         /\ (BadLoss(loss_D') =>
                 /\ NoneIn(trace', "loss_D.backward")
                 /\ SomeIn(trace', "optimizer_D.step")
                 /\ paramD' = paramD)
         /\ (BadLoss(loss_G') =>
                 /\ NoneIn(trace', "loss_G.backward")
                 /\ SomeIn(trace', "optimizer_C.step")
                 /\ paramC' = paramC)
         /\ (~BadLoss(loss_D') =>
                 /\ SomeIn(trace', "loss_D.backward")
                 /\ \E g \in GradVals : paramD' = AdamStep(paramD, g))
         /\ (~BadLoss(loss_G') =>
                 /\ SomeIn(trace', "loss_G.backward")
                 /\ \E g \in GradVals : paramC' = AdamStep(paramC, g))
         /\ Completed(trace')]_vars

\* a first step whose discriminator loss is NaN and whose generator loss is fine
C3_Witness ==
    /\ n_opt = 1
    /\ loss_D = NaN
    /\ ~BadLoss(loss_G)
    /\ paramD = 0
    /\ paramC = 0
    /\ Completed(trace)

NotBackward(e) == e # "loss_D.backward" /\ e # "loss_G.backward"

\* C4: every optimize_parameters call runs, once each and in this order:
\* forward; netD gradients on, optimizer_D.zero_grad, the discriminator
\* loss, optimizer_D.step; netD gradients off, optimizer_C.zero_grad, the
\* generator loss, optimizer_C.step; accumulate with decay 0.999.  The
\* pred_real the generator loss reads is the one stored in the same call.
C4_StepOrder ==
    n_opt > 0 =>
        /\ SelectSeq(trace, NotBackward) =
               <<"forward",
                 "netD.requires_grad=True", "optimizer_D.zero_grad", "loss_D",
                 "optimizer_D.step",
                 "netD.requires_grad=False", "optimizer_C.zero_grad", "loss_G",
                 "optimizer_C.step",
                 "accumulate(0.999)">>
        /\ pred_real = n_opt
        /\ pred_real_read = IF opt.gan_mode = "relhinge" THEN n_opt ELSE -1
        /\ ~D_requires_grad

\* a second step in relhinge mode, both sub-losses backpropagated
C4_Witness ==
    /\ n_opt = 2
    /\ opt.gan_mode = "relhinge"
    /\ pred_real_read = 2
    /\ Len(trace) = 12

InvalidBudget(o) == ~(o.epochs > MinTotalSteps)
InvalidTotalSteps(o) == ~(o.epochs + 1 > MinTotalSteps)
InvalidSizeOrBeta(o) == o.crop_size # BaseSize * 2 ^ o.max_steps \/ o.beta1 # 0

C6_ScheduleSum ==
    epochs_schedule # <<>> =>
        Abs(SumSeq(epochs_schedule) - opt.epochs) <= opt.max_steps + 1

\* a fibonacci schedule that lost epochs to truncation
C6_Witness ==
    /\ epochs_schedule # <<>>
    /\ opt.steps_schedule = "fibonacci"
    /\ opt.max_steps > 2
    /\ SumSeq(epochs_schedule) < total_steps

EndToEndCase ==
    /\ Constructed
    /\ opt.max_steps = 2
    /\ opt.epochs = 20
    /\ opt.steps_schedule = "linear"
    /\ calls = 20

\* C7: max_steps = 2, a budget of 20 epochs, linear weighting: after 20
\* update_learning_rate calls step = 2 and alpha = 1.
C7_EndToEnd == EndToEndCase => (step = 2 /\ alpha = One)

C7_Witness == EndToEndCase /\ step = 2 /\ iter = 4

\* the real sample handed to netD was downsampled for the step and blended
\* with the alpha that forward and netD use (at step 0 there is nothing to
\* blend), and has the size of the fake sample
RealMatches(d) ==
    /\ d.real.depth = d.step
    /\ d.fake.depth = d.step
    /\ (d.step > 0 => (d.real.alpha = d.alpha /\ d.fake.alpha = d.alpha))
    /\ d.real.size = d.fake.size

\* C8 as stated: whenever a set_input came at some point before an
\* optimize_parameters call, the real sample of that call matches the step
\* and alpha of its forward pass and discriminator.
C8_Original == n_opt > 0 => RealMatches(d_inputs)

\* C8 (amended): when no update_learning_rate call lies between an
\* optimize_parameters call and the last set_input before it, the real
\* sample of that call matches the step and alpha of its forward pass and
\* discriminator, and the size of the fake sample.
C8_FreshInputMatches ==
    [][(n_opt' = n_opt + 1 /\ input_calls = calls) => RealMatches(d_inputs')]_vars

\* a step taken at a later stage, at the start of its fade-in
C8_Witness ==
    /\ n_opt > 0
    /\ input_calls = calls
    /\ d_inputs.step > 0
    /\ d_inputs.step = step
    /\ d_inputs.alpha = Zero
    /\ RealMatches(d_inputs)

\* C9: every configuration accepted in training mode has an allocation of at
\* least 1 for each stage 0..max_steps, and no update_learning_rate call
\* indexes outside the schedule.
C9_ScheduleUsable ==
    Constructed =>
        /\ Len(epochs_schedule) = opt.max_steps + 1
        /\ \A i \in 1..Len(epochs_schedule) : epochs_schedule[i] >= 1
        /\ error = "none"

\* C10: for every configuration accepted in training mode, after
\* n_epochs + n_epochs_decay update_learning_rate calls the model is at
\* step = max_steps with alpha = 1.
C10_EndsFullyFaded ==
    (Constructed /\ calls = opt.epochs) => (step = opt.max_steps /\ alpha = One)
====
